---------------------------- MODULE Spec2Model ----------------------------
(***************************************************************************)
(* The zmk,kscan-adc-joystick driver (drivers/kscan/kscan_adc_joystick.c): *)
(* two ADC axes are quantized with hysteresis into tri-state directions,   *)
(* merged with the button GPIOs into a 32-bit column mask, and every       *)
(* changed column is reported to the kscan callback.  A delayable work     *)
(* item runs one scan per poll period while the device is enabled.         *)
(***************************************************************************)
EXTENDS Integers, Sequences, FiniteSets, TLC

VARIABLES
    cfg,          \* struct kscan_adc_joystick_config (immutable per instance)
    callback,     \* data->callback: TRUE iff a kscan callback is registered
    configure_ret, \* return value of the most recent configure() call, 0 before
    enabled,      \* data->enabled
    state_mask,   \* data->state_mask
    axis_x,       \* data->axis_x
    axis_y,       \* data->axis_y
    pending,      \* data->work is scheduled or queued (delay running or elapsed)
    wpc,          \* position of the work queue thread inside kscan_adc_joystick_work
    apc,          \* position of the API caller inside enable()/disable()
    scan_ret,     \* return value of the scan call the handler has just made
    events,       \* callback invocations <<column, pressed>> made by that call
    pins,         \* gpio_pin_get_dt values read by that call
    quant_x,      \* the local axis_x of that call at line 144, before inversion
    quant_y,      \* the local axis_y of that call at line 145, before inversion
    ref_axis_x,   \* data->axis_x of the same device built with invert-x and
    ref_axis_y,   \*   invert-y clear, fed the same samples and pin values,
    ref_mask,     \*   its data->axis_y and its data->state_mask
    sample,       \* quantizer harness: argument sample of axis_from_sample
    prev_axis,    \* quantizer harness: argument prev_axis of axis_from_sample
    arg_old_mask, \* emitter harness: argument old_mask of emit_changes
    arg_new_mask, \* emitter harness: argument new_mask of emit_changes
    result,       \* the harnesses: <<value returned>>, or <<>> before the call
    hold,         \* <<xr, yr, pv>> once the inputs are held constant, else <<>>
    hold_n,       \* number of scan cycles run on the held inputs
    sink_view     \* the sink's view: columns whose latest event was a press

vars == <<cfg, callback, configure_ret, enabled, state_mask, axis_x, axis_y,
          pending, wpc, apc, scan_ret, events, pins, quant_x, quant_y,
          ref_axis_x, ref_axis_y, ref_mask,
          sample, prev_axis, arg_old_mask, arg_new_mask, result,
          hold, hold_n, sink_view>>

dataVars == <<state_mask, axis_x, axis_y, scan_ret, events, pins, quant_x, quant_y>>
refVars == <<ref_axis_x, ref_axis_y, ref_mask>>
workVars == <<pending, wpc>>
harnessVars == <<sample, prev_axis, arg_old_mask, arg_new_mask, result, hold>>
cycleVars == <<hold_n, sink_view>>

----------------------------------------------------------------------------
(* Program constants *)

JOYSTICK_COLUMNS == 4
JOY_COL_UP == 0
JOY_COL_DOWN == 1
JOY_COL_LEFT == 2
JOY_COL_RIGHT == 3
MASK_COLUMNS == 32

\* the int8_t values of an AxisState
Negative == -1
Neutral == 0
Positive == 1

\* the errno a failing adc_read_dt or gpio_pin_get_dt returns, negated
EIO == 5
\* the largest uint16_t (center, deadzone, hysteresis) and int32_t (thresholds)
U16_MAX == 65535
INT32_MAX == 2147483647

\* the errno of line 201
EINVAL == 22
\* the errno of lines 236 and 241
ENODEV == 19

(* Bounds of the model *)

Mid == 3              \* the configured center of the scan specifications
Deadzone == 2         \* their configured deadzone
Hysteresis == 1       \* their configured hysteresis
SampleStep == 2       \* axis samples are Mid + SampleStep * d, d in -2 .. 2
MaxButtons == 2       \* button_count ranges over 0 .. MaxButtons
OffsetGap == 0        \* button_column_offset is JOYSTICK_COLUMNS + OffsetGap
QMaxCenter == 4       \* quantizer harness: center ranges over 0 .. QMaxCenter
QMaxDeadzone == 3     \* quantizer harness: deadzone ranges over 0 .. QMaxDeadzone
QMaxHysteresis == 3   \* quantizer harness: hysteresis over 0 .. QMaxHysteresis
QMaxSample == 11      \* quantizer harness: samples over -QMaxSample .. QMaxSample
MaxHoldCycles == 4    \* cycles run on held inputs
TEdge == 2            \* threshold harness: uint16_t values within TEdge of 0 and U16_MAX
LMaxOffset == 33      \* layout harness: button_column_offset over 0 .. LMaxOffset
LMaxCount == 33       \* layout harness: button_count over 0 .. LMaxCount

----------------------------------------------------------------------------
(* uint32_t bit operations, on naturals below 2^32 *)

BIT(n) == 2 ^ n

\* m & BIT(col)
AndBit(m, col) == ((m \div BIT(col)) % 2) * BIT(col)

\* m | BIT(col)
OrBit(m, col) == IF AndBit(m, col) = 0 THEN m + BIT(col) ELSE m

\* a ^ b
RECURSIVE BitXor(_, _)
BitXor(a, b) ==
    IF a = 0 THEN b
    ELSE IF b = 0 THEN a
    ELSE (((a % 2) + (b % 2)) % 2) + 2 * BitXor(a \div 2, b \div 2)

----------------------------------------------------------------------------
(* Inputs *)

AxisStates == {Negative, Neutral, Positive}

\* adc_read_raw: a negative errno, or 0 with the raw sample stored
\* one sample in each band the four thresholds cut the axis into
Samples == {Mid + SampleStep * d : d \in {-2, -1, 0, 1, 2}}
AdcReads == [ret : {0}, raw : Samples] \cup [ret : {-EIO}, raw : {0}]

\* gpio_pin_get_dt: a negative errno, 0 (inactive) or 1 (active)
PinValues == {-EIO, 0, 1}

PinReads(c) == [1 .. c.button_count -> PinValues]

Configs ==
    [center : {Mid},
     deadzone : {Deadzone},
     hysteresis : {Hysteresis},
     invert_x : BOOLEAN,
     invert_y : BOOLEAN,
     button_count : 0 .. MaxButtons,
     button_column_offset : {JOYSTICK_COLUMNS + OffsetGap}]

\* faulty variant: the column bound is exclusive
ConfigValid_exclusive(c) ==
    /\ c.button_column_offset + c.button_count < MASK_COLUMNS
    /\ c.button_column_offset >= JOYSTICK_COLUMNS

\* BUILD_ASSERTs of KSCAN_ADC_JOYSTICK_INIT
ConfigValid(c) ==
    /\ c.button_column_offset + c.button_count <= MASK_COLUMNS
    /\ c.button_column_offset >= JOYSTICK_COLUMNS

----------------------------------------------------------------------------
(* Pure functions *)

\* faulty variant: a failed read (negative value) counts as pressed
gpio_is_pressed_nonzero(value) ==
    value # 0

gpio_is_pressed(value) ==
    IF value < 0 THEN FALSE ELSE value > 0

low_on(c) == c.center - (c.deadzone + c.hysteresis)
\* faulty variant: low_off computed in uint16_t
low_off_u16(c) == (c.center - ((c.deadzone - c.hysteresis) % (U16_MAX + 1))) % (U16_MAX + 1)

low_off(c) == c.center - (c.deadzone - c.hysteresis)
high_on(c) == c.center + (c.deadzone + c.hysteresis)
high_off(c) == c.center + (c.deadzone - c.hysteresis)

\* faulty variant: the on-thresholds themselves trigger
axis_from_sample_inclusive(s, prev, c) ==
    IF prev < 0 THEN (IF s < low_off(c) THEN -1 ELSE 0)
    ELSE IF prev > 0 THEN (IF s > high_off(c) THEN 1 ELSE 0)
    ELSE IF s <= low_on(c) THEN -1
    ELSE IF s >= high_on(c) THEN 1
    ELSE 0

\* faulty variant: an engaged direction is released at the on-threshold
axis_from_sample_no_hold(s, prev, c) ==
    IF prev < 0 THEN (IF s < low_on(c) THEN -1 ELSE 0)
    ELSE IF prev > 0 THEN (IF s > high_on(c) THEN 1 ELSE 0)
    ELSE IF s < low_on(c) THEN -1
    ELSE IF s > high_on(c) THEN 1
    ELSE 0

axis_from_sample(s, prev, c) ==
    IF prev < 0 THEN (IF s < low_off(c) THEN -1 ELSE 0)
    ELSE IF prev > 0 THEN (IF s > high_off(c) THEN 1 ELSE 0)
    ELSE IF s < low_on(c) THEN -1
    ELSE IF s > high_on(c) THEN 1
    ELSE 0

\* faulty variant: the loop of emit_changes running from the last column down
RECURSIVE emit_loop_down(_, _, _, _)
emit_loop_down(col, changed, new_mask, max_cols) ==
    IF col >= max_cols THEN <<>>
    ELSE emit_loop_down(col + 1, changed, new_mask, max_cols)
         \o (IF AndBit(changed, col) = 0 THEN <<>>
             ELSE << <<col, AndBit(new_mask, col) # 0>> >>)

\* the loop of emit_changes from column col on
RECURSIVE emit_loop(_, _, _, _)
emit_loop(col, changed, new_mask, max_cols) ==
    IF col >= max_cols THEN <<>>
    ELSE (IF AndBit(changed, col) = 0 THEN <<>>
          ELSE << <<col, AndBit(new_mask, col) # 0>> >>)
         \o emit_loop(col + 1, changed, new_mask, max_cols)

\* faulty variant: the loop of emit_changes stops one column early
emit_changes_short(cb, old_mask, new_mask, max_cols) ==
    IF ~cb \/ old_mask = new_mask THEN <<>>
    ELSE emit_loop(0, BitXor(old_mask, new_mask), new_mask, max_cols - 1)

\* the sequence of callback invocations emit_changes makes
emit_changes(cb, old_mask, new_mask, max_cols) ==
    IF ~cb \/ old_mask = new_mask THEN <<>>
    ELSE emit_loop(0, BitXor(old_mask, new_mask), new_mask, max_cols)

\* lines 147-153: the inversion of a decoded axis
invert_axis(flag, axis) == IF flag THEN -axis ELSE axis

\* faulty variant: UP and DOWN exchanged
direction_bits_swapped(ax, ay) ==
    LET up_down == IF ay < 0 THEN OrBit(0, JOY_COL_DOWN)
                   ELSE IF ay > 0 THEN OrBit(0, JOY_COL_UP)
                   ELSE 0
    IN  IF ax < 0 THEN OrBit(up_down, JOY_COL_LEFT)
        ELSE IF ax > 0 THEN OrBit(up_down, JOY_COL_RIGHT)
        ELSE up_down

\* lines 155-167: the direction bits, or-ed into the cleared mask
direction_bits(ax, ay) ==
    LET up_down == IF ay < 0 THEN OrBit(0, JOY_COL_UP)
                   ELSE IF ay > 0 THEN OrBit(0, JOY_COL_DOWN)
                   ELSE 0
    IN  IF ax < 0 THEN OrBit(up_down, JOY_COL_LEFT)
        ELSE IF ax > 0 THEN OrBit(up_down, JOY_COL_RIGHT)
        ELSE up_down

\* faulty variant: the button columns start one column late
RECURSIVE button_bits_off_by_one(_, _, _, _)
button_bits_off_by_one(i, mask, pv, c) ==
    IF i >= c.button_count THEN mask
    ELSE button_bits_off_by_one(i + 1,
                                IF gpio_is_pressed(pv[i + 1])
                                THEN OrBit(mask, c.button_column_offset + i + 1)
                                ELSE mask,
                                pv, c)

\* lines 169-173: the button loop from button i (0-based) on
RECURSIVE button_bits(_, _, _, _)
button_bits(i, mask, pv, c) ==
    IF i >= c.button_count THEN mask
    ELSE button_bits(i + 1,
                     IF gpio_is_pressed(pv[i + 1])
                     THEN OrBit(mask, c.button_column_offset + i)
                     ELSE mask,
                     pv, c)

\* lines 147-173 of kscan_adc_joystick_scan: the mask built from the decoded
\* axes ax, ay (inverted here, as the locals are) and the pin values pv
build_mask(c, ax, ay, pv) ==
    button_bits(0, direction_bits(invert_axis(c.invert_x, ax),
                                  invert_axis(c.invert_y, ay)), pv, c)

----------------------------------------------------------------------------
\* the configuration of the reference device: the inversion flags clear
NoInvert(c) == [c EXCEPT !.invert_x = FALSE, !.invert_y = FALSE]

----------------------------------------------------------------------------
(* Initial state: after a successful kscan_adc_joystick_init *)

\* lines 226-232: what kscan_adc_joystick_init stores
init_data ==
    /\ callback = FALSE
    /\ configure_ret = 0
    /\ enabled = FALSE
    /\ state_mask = 0
    /\ axis_x = 0
    /\ axis_y = 0
    /\ pending = FALSE
    /\ wpc = "idle"
    /\ apc = "idle"
    /\ scan_ret = 0
    /\ events = <<>>
    /\ pins = <<>>
    /\ quant_x = 0
    /\ quant_y = 0
    /\ ref_axis_x = 0
    /\ ref_axis_y = 0
    /\ ref_mask = 0
    /\ hold = <<>>
    /\ hold_n = 0
    /\ sink_view = 0

Init ==
    /\ cfg \in {c \in Configs : ConfigValid(c)}
    /\ init_data
    /\ sample = 0
    /\ prev_axis = 0
    /\ arg_old_mask = 0
    /\ arg_new_mask = 0
    /\ result = <<>>

----------------------------------------------------------------------------
(* kscan_adc_joystick_scan, one call, with the ADC and GPIO results as inputs *)

\* faulty variant: a failed X read clears the stored mask
scan_x_fail_clears(xr) ==
    /\ xr.ret < 0
    /\ scan_ret' = xr.ret
    /\ events' = <<>>
    /\ pins' = <<>>
    /\ quant_x' = 0
    /\ quant_y' = 0
    /\ state_mask' = 0
    /\ UNCHANGED <<axis_x, axis_y>>

\* line 132-136: the X read fails
scan_x_fail(xr) ==
    /\ xr.ret < 0
    /\ scan_ret' = xr.ret
    /\ events' = <<>>
    /\ pins' = <<>>
    /\ quant_x' = 0
    /\ quant_y' = 0
    /\ UNCHANGED <<state_mask, axis_x, axis_y>>

\* faulty variant: the X axis is stored before the Y read is checked
scan_y_fail_partial(xr, yr) ==
    /\ xr.ret = 0
    /\ yr.ret < 0
    /\ scan_ret' = yr.ret
    /\ events' = <<>>
    /\ pins' = <<>>
    /\ quant_x' = 0
    /\ quant_y' = 0
    /\ axis_x' = invert_axis(cfg.invert_x, axis_from_sample(xr.raw, axis_x, cfg))
    /\ UNCHANGED <<state_mask, axis_y>>

\* line 138-142: the X read succeeds and the Y read fails
scan_y_fail(xr, yr) ==
    /\ xr.ret = 0
    /\ yr.ret < 0
    /\ scan_ret' = yr.ret
    /\ events' = <<>>
    /\ pins' = <<>>
    /\ quant_x' = 0
    /\ quant_y' = 0
    /\ UNCHANGED <<state_mask, axis_x, axis_y>>

\* lines 144-181: both reads succeed
scan_ok(xr, yr, pv) ==
    /\ xr.ret = 0
    /\ yr.ret = 0
    /\ \E qx \in {axis_from_sample(xr.raw, axis_x, cfg)} :
       \E qy \in {axis_from_sample(yr.raw, axis_y, cfg)} :
       \E new_mask \in {build_mask(cfg, qx, qy, pv)} :
           /\ quant_x' = qx
           /\ quant_y' = qy
           /\ events' = emit_changes(callback, state_mask, new_mask,
                                     cfg.button_column_offset + cfg.button_count)
           /\ state_mask' = new_mask
           /\ axis_x' = invert_axis(cfg.invert_x, qx)     \* line 178
           /\ axis_y' = invert_axis(cfg.invert_y, qy)     \* line 179
    /\ pins' = pv
    /\ scan_ret' = 0

kscan_adc_joystick_scan(xr, yr, pv) ==
    \/ scan_x_fail(xr)
    \/ scan_y_fail(xr, yr)
    \/ scan_ok(xr, yr, pv)

\* the same call on the reference device
ref_scan(xr, yr, pv) ==
    IF xr.ret < 0 \/ yr.ret < 0
    THEN UNCHANGED refVars
    ELSE \E rx \in {axis_from_sample(xr.raw, ref_axis_x, NoInvert(cfg))} :
         \E ry \in {axis_from_sample(yr.raw, ref_axis_y, NoInvert(cfg))} :
             /\ ref_mask' = build_mask(NoInvert(cfg), rx, ry, pv)
             /\ ref_axis_x' = rx
             /\ ref_axis_y' = ry

----------------------------------------------------------------------------
(* The driver API *)

\* faulty variant: configure(NULL) stores the NULL callback
kscan_adc_joystick_configure_stores_null(cb) ==
    /\ apc = "idle"
    /\ configure_ret' = (IF ~cb THEN -EINVAL ELSE 0)
    /\ callback' = cb
    /\ UNCHANGED <<cfg, enabled, dataVars, refVars, workVars, apc, harnessVars, cycleVars>>

\* kscan_adc_joystick_configure(dev, cb); cb = FALSE stands for NULL
kscan_adc_joystick_configure(cb) ==
    /\ apc = "idle"
    /\ IF ~cb
       THEN configure_ret' = -EINVAL /\ UNCHANGED callback
       ELSE configure_ret' = 0 /\ callback' = cb
    /\ UNCHANGED <<cfg, enabled, dataVars, refVars, workVars, apc, harnessVars, cycleVars>>

Configure == \E cb \in BOOLEAN : kscan_adc_joystick_configure(cb)

\* kscan_adc_joystick_enable, line 211
enable_set ==
    /\ apc = "idle"
    /\ enabled' = TRUE
    /\ apc' = "enable_reschedule"
    /\ UNCHANGED <<cfg, callback, configure_ret, dataVars, refVars, workVars, harnessVars, cycleVars>>

\* kscan_adc_joystick_enable, line 212: k_work_reschedule(&data->work, K_NO_WAIT)
enable_reschedule ==
    /\ apc = "enable_reschedule"
    /\ pending' = TRUE
    /\ apc' = "idle"
    /\ UNCHANGED <<cfg, callback, configure_ret, enabled, dataVars, refVars, wpc, harnessVars, cycleVars>>

\* kscan_adc_joystick_disable, line 218
disable_set ==
    /\ apc = "idle"
    /\ enabled' = FALSE
    /\ apc' = "disable_cancel"
    /\ UNCHANGED <<cfg, callback, configure_ret, dataVars, refVars, workVars, harnessVars, cycleVars>>

\* kscan_adc_joystick_disable, line 219: k_work_cancel_delayable(&data->work)
\* takes the item off the timer and the queue; a running handler is not stopped
disable_cancel ==
    /\ apc = "disable_cancel"
    /\ pending' = FALSE
    /\ apc' = "idle"
    /\ UNCHANGED <<cfg, callback, configure_ret, enabled, dataVars, refVars, wpc, harnessVars, cycleVars>>

----------------------------------------------------------------------------
(* kscan_adc_joystick_work, run by the work queue thread when the item is due *)

\* lines 184-190: the item leaves the queue and the handler runs one scan;
\* with track set the reference device runs the same scan
work_scan(xr, yr, pv, track) ==
    /\ pending
    /\ wpc = "idle"
    /\ pending' = FALSE
    /\ kscan_adc_joystick_scan(xr, yr, pv)
    /\ IF track THEN ref_scan(xr, yr, pv) ELSE UNCHANGED refVars
    /\ wpc' = "check"
    /\ UNCHANGED <<cfg, callback, configure_ret, enabled, apc, harnessVars>>

WorkScanXFail ==
    /\ \E xr \in AdcReads : xr.ret < 0 /\ work_scan(xr, xr, <<>>, FALSE)
    /\ UNCHANGED cycleVars

WorkScanYFail ==
    /\ \E xr, yr \in AdcReads :
           xr.ret = 0 /\ yr.ret < 0 /\ work_scan(xr, yr, <<>>, FALSE)
    /\ UNCHANGED cycleVars

WorkScanOk ==
    /\ \E xr, yr \in AdcReads : \E pv \in PinReads(cfg) :
           xr.ret = 0 /\ yr.ret = 0 /\ work_scan(xr, yr, pv, FALSE)
    /\ UNCHANGED cycleVars

\* the same three steps, the reference device scanning along
RefScanXFail ==
    /\ \E xr \in AdcReads : xr.ret < 0 /\ work_scan(xr, xr, <<>>, TRUE)
    /\ UNCHANGED cycleVars

RefScanYFail ==
    /\ \E xr, yr \in AdcReads :
           xr.ret = 0 /\ yr.ret < 0 /\ work_scan(xr, yr, <<>>, TRUE)
    /\ UNCHANGED cycleVars

RefScanOk ==
    /\ \E xr, yr \in AdcReads : \E pv \in PinReads(cfg) :
           xr.ret = 0 /\ yr.ret = 0 /\ work_scan(xr, yr, pv, TRUE)
    /\ UNCHANGED cycleVars

\* faulty variant: the handler reschedules only after a successful scan
work_check_only_ok ==
    /\ wpc = "check"
    /\ wpc' = IF enabled /\ scan_ret = 0 THEN "reschedule" ELSE "idle"
    /\ scan_ret' = 0
    /\ events' = <<>>
    /\ pins' = <<>>
    /\ quant_x' = 0
    /\ quant_y' = 0
    /\ UNCHANGED <<cfg, callback, configure_ret, enabled, state_mask, axis_x, axis_y,
                   ref_axis_x, ref_axis_y, ref_mask, pending, apc, harnessVars, cycleVars>>

\* line 192: if (data->enabled)
work_check ==
    /\ wpc = "check"
    /\ wpc' = IF enabled THEN "reschedule" ELSE "idle"
    /\ scan_ret' = 0
    /\ events' = <<>>
    /\ pins' = <<>>
    /\ quant_x' = 0
    /\ quant_y' = 0
    /\ UNCHANGED <<cfg, callback, configure_ret, enabled, state_mask, axis_x, axis_y,
                   ref_axis_x, ref_axis_y, ref_mask, pending, apc, harnessVars, cycleVars>>

\* line 193: k_work_reschedule(&data->work, K_MSEC(cfg->poll_period_ms))
work_reschedule ==
    /\ wpc = "reschedule"
    /\ pending' = TRUE
    /\ wpc' = "idle"
    /\ UNCHANGED <<cfg, callback, configure_ret, enabled, dataVars, refVars, apc, harnessVars, cycleVars>>

kscan_adc_joystick_work ==
    \/ WorkScanXFail
    \/ WorkScanYFail
    \/ WorkScanOk
    \/ work_check
    \/ work_reschedule

----------------------------------------------------------------------------
(* Specifications *)

Next ==
    \/ Configure
    \/ enable_set
    \/ enable_reschedule
    \/ disable_set
    \/ disable_cancel
    \/ WorkScanXFail
    \/ WorkScanYFail
    \/ WorkScanOk
    \/ work_check
    \/ work_reschedule

\* The whole driver, on the devices without buttons: enable() and disable()
\* are called from another thread while the work queue runs the handler.
SchedInit == Init /\ cfg.button_count = 0

Spec == SchedInit /\ [][Next]_vars

\* The work queue thread runs a due item and the handler to its end; a call
\* of enable() or disable() that has begun returns.
Fairness ==
    /\ WF_vars(kscan_adc_joystick_work)
    /\ WF_vars(enable_reschedule \/ disable_cancel)

LiveSpec == Spec /\ Fairness

\* A session that is enabled once and never disabled, on every device.
EnableOnce == ~enabled /\ enable_set

ScanNext ==
    \/ Configure
    \/ EnableOnce
    \/ enable_reschedule
    \/ WorkScanXFail
    \/ WorkScanYFail
    \/ WorkScanOk
    \/ work_check
    \/ work_reschedule

ScanSpec == Init /\ [][ScanNext]_vars

\* The same session, beside the reference device: the same device built with
\* invert-x and invert-y clear, given the same samples and pin values.
RefNext ==
    \/ Configure
    \/ EnableOnce
    \/ enable_reschedule
    \/ RefScanXFail
    \/ RefScanYFail
    \/ RefScanOk
    \/ work_check
    \/ work_reschedule

RefSpec == Init /\ [][RefNext]_vars

\* The quantizer alone: axis_from_sample applied to every sample, previous
\* state and threshold record of the harness.
QuantConfigs ==
    [center : 0 .. QMaxCenter,
     deadzone : 0 .. QMaxDeadzone,
     hysteresis : 0 .. QMaxHysteresis,
     invert_x : {FALSE},
     invert_y : {FALSE},
     button_count : {0},
     button_column_offset : {JOYSTICK_COLUMNS}]

QuantInit ==
    /\ cfg \in QuantConfigs
    /\ init_data
    /\ sample \in (0 - QMaxSample) .. QMaxSample
    /\ prev_axis \in AxisStates
    /\ arg_old_mask = 0
    /\ arg_new_mask = 0
    /\ result = <<>>

Quantize ==
    /\ result = <<>>
    /\ result' = <<axis_from_sample(sample, prev_axis, cfg)>>
    /\ UNCHANGED <<cfg, callback, configure_ret, enabled, dataVars, refVars, workVars, apc,
                   sample, prev_axis, arg_old_mask, arg_new_mask, hold, cycleVars>>

QuantNext == Quantize

QuantSpec == QuantInit /\ [][QuantNext]_vars

\* The change emitter alone: emit_changes applied, as line 175 calls it, to
\* every pair of masks over the columns of the device, with and without a
\* registered callback.
EmitInit ==
    /\ cfg \in {c \in Configs : ConfigValid(c) /\ ~c.invert_x /\ ~c.invert_y}
    /\ init_data
    /\ sample = 0
    /\ prev_axis = 0
    /\ arg_old_mask \in 0 .. (BIT(cfg.button_column_offset + cfg.button_count) - 1)
    /\ arg_new_mask \in 0 .. (BIT(cfg.button_column_offset + cfg.button_count) - 1)
    /\ result = <<>>

EmitConfigure ==
    /\ result = <<>>
    /\ kscan_adc_joystick_configure(TRUE)

Emit ==
    /\ result = <<>>
    /\ result' = <<emit_changes(callback, arg_old_mask, arg_new_mask,
                                cfg.button_column_offset + cfg.button_count)>>
    /\ UNCHANGED <<cfg, callback, configure_ret, enabled, dataVars, refVars, workVars, apc,
                   sample, prev_axis, arg_old_mask, arg_new_mask, hold, cycleVars>>

EmitNext == EmitConfigure \/ Emit

EmitSpec == EmitInit /\ [][EmitNext]_vars

\* Initialization: kscan_adc_joystick_init runs on a data struct that holds
\* whatever an earlier session stored, then the session of ScanSpec follows
\* a successful initialization.
InitResults == {0, -ENODEV, -EIO}

BootInit ==
    /\ cfg \in {c \in Configs : ConfigValid(c) /\ c.button_count <= 1}
    /\ callback \in BOOLEAN
    /\ configure_ret = 0
    /\ enabled \in BOOLEAN
    /\ axis_x \in AxisStates
    /\ axis_y \in AxisStates
    /\ state_mask \in {button_bits(0, direction_bits(axis_x, axis_y), pv, cfg) :
                         pv \in PinReads(cfg)}
    /\ pending = FALSE
    /\ wpc = "idle"
    /\ apc = "idle"
    /\ scan_ret = 0
    /\ events = <<>>
    /\ pins = <<>>
    /\ quant_x = 0
    /\ quant_y = 0
    /\ ref_axis_x = 0
    /\ ref_axis_y = 0
    /\ ref_mask = 0
    /\ sample = 0
    /\ prev_axis = 0
    /\ arg_old_mask = 0
    /\ arg_new_mask = 0
    /\ result = <<>>
    /\ hold = <<>>
    /\ hold_n = 0
    /\ sink_view = 0

\* faulty variant: the readiness checks come before the stores
kscan_adc_joystick_init_checks_first(ret) ==
    /\ result = <<>>
    /\ result' = <<ret>>
    /\ IF ret < 0
       THEN UNCHANGED <<callback, enabled, state_mask, axis_x, axis_y, pending>>
       ELSE /\ callback' = FALSE
            /\ enabled' = FALSE
            /\ state_mask' = 0
            /\ axis_x' = 0
            /\ axis_y' = 0
            /\ pending' = FALSE
    /\ UNCHANGED <<cfg, configure_ret, scan_ret, events, pins, quant_x, quant_y,
                   refVars, wpc, apc, sample, prev_axis, arg_old_mask,
                   arg_new_mask, hold, cycleVars>>

\* kscan_adc_joystick_init: lines 226-232 store the reset state; ret is what
\* the readiness checks and the channel and pin setup that follow return
kscan_adc_joystick_init(ret) ==
    /\ result = <<>>
    /\ result' = <<ret>>
    /\ callback' = FALSE
    /\ enabled' = FALSE
    /\ state_mask' = 0
    /\ axis_x' = 0
    /\ axis_y' = 0
    /\ pending' = FALSE
    /\ UNCHANGED <<cfg, configure_ret, scan_ret, events, pins, quant_x, quant_y,
                   refVars, wpc, apc, sample, prev_axis, arg_old_mask,
                   arg_new_mask, hold, cycleVars>>

InitCall == \E ret \in InitResults : kscan_adc_joystick_init(ret)

BootNext ==
    \/ InitCall
    \/ (result = <<0>> /\ Configure)
    \/ (result = <<0>> /\ EnableOnce)
    \/ (result = <<0>> /\ enable_reschedule)
    \/ (result = <<0>> /\ WorkScanXFail)
    \/ (result = <<0>> /\ WorkScanYFail)
    \/ (result = <<0>> /\ WorkScanOk)
    \/ (result = <<0>> /\ work_check)
    \/ (result = <<0>> /\ work_reschedule)

BootSpec == BootInit /\ [][BootNext]_vars

\* The build-time checks alone: the BUILD_ASSERTs of KSCAN_ADC_JOYSTICK_INIT
\* applied to every column layout of the harness.
LayoutConfigs ==
    [center : {Mid},
     deadzone : {Deadzone},
     hysteresis : {Hysteresis},
     invert_x : {FALSE},
     invert_y : {FALSE},
     button_count : 0 .. LMaxCount,
     button_column_offset : 0 .. LMaxOffset]

LayoutInit ==
    /\ cfg \in LayoutConfigs
    /\ init_data
    /\ sample = 0
    /\ prev_axis = 0
    /\ arg_old_mask = 0
    /\ arg_new_mask = 0
    /\ result = <<>>

BuildAssert ==
    /\ result = <<>>
    /\ result' = <<ConfigValid(cfg)>>
    /\ UNCHANGED <<cfg, callback, configure_ret, enabled, dataVars, refVars, workVars, apc,
                   sample, prev_axis, arg_old_mask, arg_new_mask, hold, cycleVars>>

LayoutNext == BuildAssert

LayoutSpec == LayoutInit /\ [][LayoutNext]_vars

\* Held inputs: a session of ScanSpec in which, from some cycle on, the ADC
\* and the pins return the same values in every cycle.
HoldInit == Init /\ cfg.button_count <= 1

Register == kscan_adc_joystick_configure(TRUE)

FreeScan ==
    \/ (hold = <<>> /\ WorkScanXFail)
    \/ (hold = <<>> /\ WorkScanYFail)
    \/ (hold = <<>> /\ WorkScanOk)

StartHold ==
    /\ hold = <<>>
    /\ wpc = "idle"
    /\ \E xr, yr \in AdcReads : \E pv \in PinReads(cfg) :
           xr.ret = 0 /\ yr.ret = 0 /\ hold' = <<xr, yr, pv>>
    /\ UNCHANGED <<cfg, callback, configure_ret, enabled, dataVars, refVars, workVars, apc,
                   sample, prev_axis, arg_old_mask, arg_new_mask, result, cycleVars>>

HeldScan ==
    /\ hold # <<>>
    /\ hold_n < MaxHoldCycles
    /\ work_scan(hold[1], hold[2], hold[3], FALSE)
    /\ hold_n' = hold_n + 1
    /\ UNCHANGED sink_view

HoldNext ==
    \/ Register
    \/ EnableOnce
    \/ enable_reschedule
    \/ FreeScan
    \/ StartHold
    \/ HeldScan
    \/ work_check
    \/ work_reschedule

HoldSpec == HoldInit /\ [][HoldNext]_vars

\* The sink: line 122 calls it once per event, and it keeps for every column
\* the pressed value of the latest event.
RECURSIVE sink_apply(_, _)
sink_apply(view, evs) ==
    IF evs = <<>> THEN view
    ELSE sink_apply(IF Head(evs)[2]
                    THEN OrBit(view, Head(evs)[1])
                    ELSE view - AndBit(view, Head(evs)[1]),
                    Tail(evs))

\* A session of ScanSpec whose sink is registered before enable() and never
\* changed, the sink keeping its view.
RegisterFirst == ~callback /\ ~enabled /\ Register

EnableRegistered == callback /\ EnableOnce

SinkScan ==
    /\ \E xr, yr \in AdcReads : \E pv \in PinReads(cfg) :
           work_scan(xr, yr, pv, FALSE)
    /\ sink_view' = sink_apply(sink_view, events')
    /\ UNCHANGED hold_n

SinkNext ==
    \/ RegisterFirst
    \/ EnableRegistered
    \/ enable_reschedule
    \/ SinkScan
    \/ work_check
    \/ work_reschedule

SinkSpec == Init /\ [][SinkNext]_vars

\* The threshold arithmetic alone: lines 83-86 and the quantizer applied to
\* center, deadzone and hysteresis at both ends of the uint16_t range.
U16Values == (0 .. TEdge) \cup ((U16_MAX - TEdge) .. U16_MAX)

ThresholdConfigs ==
    [center : U16Values,
     deadzone : U16Values,
     hysteresis : U16Values,
     invert_x : {FALSE},
     invert_y : {FALSE},
     button_count : {0},
     button_column_offset : {JOYSTICK_COLUMNS}]

\* the samples at and next to the four thresholds
ThresholdSamples(c) ==
    {t + d : t \in {low_on(c), low_off(c), high_on(c), high_off(c)}, d \in {-1, 0, 1}}

ThresholdInit ==
    /\ cfg \in ThresholdConfigs
    /\ init_data
    /\ sample \in ThresholdSamples(cfg)
    /\ prev_axis = Neutral
    /\ arg_old_mask = 0
    /\ arg_new_mask = 0
    /\ result = <<>>

\* lines 83-86
Thresholds ==
    /\ result = <<>>
    /\ result' = <<low_on(cfg), low_off(cfg), high_on(cfg), high_off(cfg)>>
    /\ UNCHANGED <<cfg, callback, configure_ret, enabled, dataVars, refVars, workVars, apc,
                   sample, prev_axis, arg_old_mask, arg_new_mask, hold, cycleVars>>

\* two successive calls of axis_from_sample on the same sample, the second
\* with the result of the first as prev_axis (lines 144 and 178)
TriggerThenHold ==
    /\ result = <<>>
    /\ \E first \in {axis_from_sample(sample, prev_axis, cfg)} :
           result' = <<first, axis_from_sample(sample, first, cfg)>>
    /\ UNCHANGED <<cfg, callback, configure_ret, enabled, dataVars, refVars, workVars, apc,
                   sample, prev_axis, arg_old_mask, arg_new_mask, hold, cycleVars>>

ThresholdNext == Thresholds \/ TriggerThenHold

ThresholdSpec == ThresholdInit /\ [][ThresholdNext]_vars

----------------------------------------------------------------------------
(* Properties *)

\* bit col of the mask m
RECURSIVE TestBit(_, _)
TestBit(m, col) == IF col = 0 THEN (m % 2) = 1 ELSE TestBit(m \div 2, col - 1)

\* m >> n
RECURSIVE ShiftRight(_, _)
ShiftRight(m, n) == IF n = 0 THEN m ELSE ShiftRight(m \div 2, n - 1)

Columns == 0 .. (MASK_COLUMNS - 1)

\* the work handler has just returned from a scan call
ScanReturned == wpc = "check"
\* this step is a scan call
ScanStep == wpc = "idle" /\ wpc' = "check"

\* C1: from Neutral, the quantizer returns Negative iff the sample is below
\* center - deadzone - hysteresis, Positive iff it is above
\* center + deadzone + hysteresis, and Neutral otherwise; a sample equal to
\* either threshold yields Neutral.
QuantizeFromNeutral ==
    (result # <<>> /\ prev_axis = Neutral) =>
        /\ result[1] \in AxisStates
        /\ (result[1] = Negative) <=>
               (sample < cfg.center - cfg.deadzone - cfg.hysteresis)
        /\ (result[1] = Positive) <=>
               (sample > cfg.center + cfg.deadzone + cfg.hysteresis)
        /\ (result[1] = Neutral) <=>
               /\ sample >= cfg.center - cfg.deadzone - cfg.hysteresis
               /\ sample <= cfg.center + cfg.deadzone + cfg.hysteresis

\* C1 witness: a sample equal to lowOn, with a nonzero band, quantized from
\* Neutral to Neutral.
QuantizeFromNeutralWitness ==
    /\ result = <<Neutral>>
    /\ prev_axis = Neutral
    /\ cfg.deadzone > 0
    /\ cfg.hysteresis > 0
    /\ sample = cfg.center - cfg.deadzone - cfg.hysteresis

\* C2: from Negative the quantizer returns Negative iff the sample is below
\* lowOff = center - (deadzone - hysteresis) and Neutral otherwise; from
\* Positive it returns Positive iff the sample is above
\* highOff = center + (deadzone - hysteresis) and Neutral otherwise.
HysteresisHold ==
    (result # <<>>) =>
        /\ (prev_axis = Negative) =>
               result[1] = (IF sample < cfg.center - (cfg.deadzone - cfg.hysteresis)
                            THEN Negative ELSE Neutral)
        /\ (prev_axis = Positive) =>
               result[1] = (IF sample > cfg.center + (cfg.deadzone - cfg.hysteresis)
                            THEN Positive ELSE Neutral)

\* C2 witness: Negative is held for a sample that lies between the on- and the
\* off-threshold, which would not have triggered Negative from Neutral.
HysteresisHoldWitness ==
    /\ prev_axis = Negative
    /\ result = <<Negative>>
    /\ sample >= cfg.center - (cfg.deadzone + cfg.hysteresis)
    /\ sample < cfg.center - (cfg.deadzone - cfg.hysteresis)

\* the mask m with the bits of columns a and b exchanged
SwapBits(m, a, b) ==
    IF TestBit(m, a) = TestBit(m, b) THEN m
    ELSE IF TestBit(m, a) THEN m - BIT(a) + BIT(b)
    ELSE m - BIT(b) + BIT(a)

\* C3: inversion only negates the decoded direction: the mask a device
\* stores equals the mask the same device with the inversion flags clear
\* stores for the same samples and buttons, with LEFT and RIGHT exchanged
\* when invertX is set and UP and DOWN exchanged when invertY is set.
InversionOnlySwapsDirections ==
    LET lr == IF cfg.invert_x
              THEN SwapBits(ref_mask, JOY_COL_LEFT, JOY_COL_RIGHT)
              ELSE ref_mask
    IN  state_mask = IF cfg.invert_y
                     THEN SwapBits(lr, JOY_COL_UP, JOY_COL_DOWN)
                     ELSE lr

\* C4: no scan cycle takes the stored AxisState of an axis from Negative to
\* Positive or from Positive to Negative.
NoDirectReversal ==
    [][/\ ~(axis_x = Negative /\ axis_x' = Positive)
       /\ ~(axis_x = Positive /\ axis_x' = Negative)
       /\ ~(axis_y = Negative /\ axis_y' = Positive)
       /\ ~(axis_y = Positive /\ axis_y' = Negative)]_vars

\* the direction an axis reports in a cycle: the quantizer's result, negated
\* when the axis is inverted
Effective(invert, quant) == IF invert THEN 0 - quant ELSE quant

\* C5: after a successful scan cycle the stored mask has UP set iff the
\* effective Y state of the cycle is Negative, DOWN iff it is Positive, LEFT
\* iff effective X is Negative, RIGHT iff it is Positive, bit offset + i iff
\* button i was read as pressed, and every other bit clear.
Aggregation ==
    (ScanReturned /\ scan_ret = 0) =>
        /\ ShiftRight(state_mask, MASK_COLUMNS) = 0
        /\ \A col \in Columns :
               TestBit(state_mask, col) <=>
                   \/ col = JOY_COL_UP /\ Effective(cfg.invert_y, quant_y) = Negative
                   \/ col = JOY_COL_DOWN /\ Effective(cfg.invert_y, quant_y) = Positive
                   \/ col = JOY_COL_LEFT /\ Effective(cfg.invert_x, quant_x) = Negative
                   \/ col = JOY_COL_RIGHT /\ Effective(cfg.invert_x, quant_x) = Positive
                   \/ \E i \in 0 .. (cfg.button_count - 1) :
                          col = cfg.button_column_offset + i /\ pins[i + 1] > 0

\* C5 witness: a successful cycle of a device with an inverted Y axis that
\* reports UP and LEFT, with the second button pressed and the first not.
AggregationWitness ==
    /\ ScanReturned
    /\ scan_ret = 0
    /\ cfg.invert_y
    /\ quant_y = Positive
    /\ quant_x = Negative
    /\ ~cfg.invert_x
    /\ cfg.button_count = 2
    /\ pins = <<0, 1>>
    /\ state_mask = BIT(JOY_COL_UP) + BIT(JOY_COL_LEFT) + BIT(cfg.button_column_offset + 1)

\* the set bits of m, counted from column col
RECURSIVE SetBits(_, _)
SetBits(m, col) ==
    IF m = 0 THEN {}
    ELSE (IF (m % 2) = 1 THEN {col} ELSE {}) \cup SetBits(m \div 2, col + 1)

\* C6: for all masks oldMask and newMask of the device and a registered
\* sink, the columns for which emit_changes invokes the sink are exactly the
\* set bits of oldMask XOR newMask, each reported with pressed equal to its
\* bit in newMask.
DiffCompleteness ==
    (result # <<>> /\ callback) =>
        /\ {result[1][k][1] : k \in 1 .. Len(result[1])}
               = SetBits(BitXor(arg_old_mask, arg_new_mask), 0)
        /\ \A k \in 1 .. Len(result[1]) :
               result[1][k][2] = (result[1][k][1] \in SetBits(arg_new_mask, 0))

\* C6 witness: a call that reported a release of column 0 and a press of the
\* last column of a device with buttons, leaving a set column unreported.
DiffCompletenessWitness ==
    /\ result # <<>>
    /\ cfg.button_count > 0
    /\ Len(result[1]) = 2
    /\ result[1][1] = <<0, FALSE>>
    /\ result[1][2] = <<cfg.button_column_offset + cfg.button_count - 1, TRUE>>
    /\ AndBit(arg_new_mask, JOY_COL_DOWN) # 0

\* C7: the events of one scan cycle are in strictly increasing column order;
\* with buttonColumnOffset = 4 and buttonCount = 2, both buttons pressed in a
\* cycle from the all-neutral state, the axes staying neutral, yield exactly
\* (4, true), (5, true).
EventOrdering ==
    [][ScanStep =>
          /\ \A j, k \in 1 .. Len(events') : j < k => events'[j][1] < events'[k][1]
          /\ ( /\ callback
               /\ cfg.button_column_offset = 4
               /\ cfg.button_count = 2
               /\ state_mask = 0 /\ axis_x = Neutral /\ axis_y = Neutral
               /\ scan_ret' = 0
               /\ quant_x' = Neutral /\ quant_y' = Neutral
               /\ pins' = <<1, 1>> )
             => events' = << <<4, TRUE>>, <<5, TRUE>> >>]_vars

\* C7 witness: the two button presses, reported in column order.
EventOrderingWitness ==
    /\ ScanReturned
    /\ cfg.button_column_offset = 4
    /\ cfg.button_count = 2
    /\ events = << <<4, TRUE>>, <<5, TRUE>> >>

\* C8: a scan cycle that returns an axis read error emits no event and
\* leaves the stored axis_x, axis_y and state_mask unchanged.
AxisFailurePreservesState ==
    [][(ScanStep /\ scan_ret' < 0) =>
          /\ events' = <<>>
          /\ UNCHANGED <<state_mask, axis_x, axis_y>>]_vars

\* C8 witness: a failed cycle of a device that holds a direction and a
\* pressed button.
AxisFailureWitness ==
    /\ ScanReturned
    /\ scan_ret < 0
    /\ axis_x # Neutral
    /\ callback
    /\ ShiftRight(state_mask, JOYSTICK_COLUMNS) # 0

\* C9: if from some point on the session stays Enabled (disable() is not
\* called again), scan cycles run infinitely often, whether they succeed or
\* abort on an axis read failure.
PollingLiveness == (<>[]enabled) => ([]<>ScanReturned)

\* C9 witness: a cycle of an Enabled session has aborted on a read failure
\* and the handler is about to request the next one.
PollingLivenessWitness ==
    /\ ScanReturned
    /\ scan_ret < 0
    /\ enabled
    /\ apc = "idle"
    /\ ~pending

\* C10: a scan cycle is pending only while the session is Enabled: outside
\* the two statements of disable(), pending implies enabled.
PendingOnlyWhileEnabled ==
    (pending /\ apc # "disable_cancel") => enabled

\* C11: a scan cycle that begins while the session is Disabled emits no event
\* and changes no stored state (mask, axis states).
DisabledCycleIsInert ==
    [][(ScanStep /\ ~enabled) =>
          /\ events' = <<>>
          /\ UNCHANGED <<state_mask, axis_x, axis_y>>]_vars

\* the columns the stored axis states ax, ay engage
DirectionColumns(ax, ay) ==
    (IF ay = Negative THEN {JOY_COL_UP} ELSE {})
    \cup (IF ay = Positive THEN {JOY_COL_DOWN} ELSE {})
    \cup (IF ax = Negative THEN {JOY_COL_LEFT} ELSE {})
    \cup (IF ax = Positive THEN {JOY_COL_RIGHT} ELSE {})

\* the columns of the buttons the pin values pv read as pressed
PressedColumns(pv) ==
    {cfg.button_column_offset + i - 1 : i \in {j \in 1 .. Len(pv) : pv[j] > 0}}

ButtonFailureDegrades ==
    [][(ScanStep /\ \E i \in 1 .. Len(pins') : pins'[i] < 0) =>
          /\ scan_ret' = 0
          /\ axis_x' = Effective(cfg.invert_x, quant_x')
          /\ axis_y' = Effective(cfg.invert_y, quant_y')
          /\ SetBits(state_mask', 0)
                 = DirectionColumns(axis_x', axis_y') \cup PressedColumns(pins')
          /\ callback =>
                 {events'[k][1] : k \in 1 .. Len(events')}
                     = SetBits(BitXor(state_mask, state_mask'), 0)]_vars

\* C13 witness: the first button's read failed; the cycle stored the second
\* button and a direction and reported them.
ButtonFailureWitness ==
    /\ ScanReturned
    /\ scan_ret = 0
    /\ pins = <<-EIO, 1>>
    /\ AndBit(state_mask, cfg.button_column_offset) = 0
    /\ AndBit(state_mask, cfg.button_column_offset + 1) # 0
    /\ axis_y # Neutral
    /\ Len(events) >= 2

\* this step is a call of kscan_adc_joystick_init
InitStep == result = <<>> /\ result' # <<>>

\* C14: kscan_adc_joystick_init, whatever the struct held before and whatever
\* it returns, leaves the mask 0, both axis states Neutral, the session
\* Disabled and no sink registered; afterwards only scan cycles change the
\* stored state, so the first cycle diffs against the all-zero mask and
\* reports exactly the set columns of its mask as presses.
InitResets ==
    [][/\ InitStep =>
             /\ state_mask' = 0
             /\ axis_x' = Neutral
             /\ axis_y' = Neutral
             /\ ~enabled'
             /\ ~callback'
       /\ (~InitStep /\ ~ScanStep) => UNCHANGED <<state_mask, axis_x, axis_y>>
       /\ (ScanStep /\ state_mask = 0 /\ callback /\ scan_ret' = 0) =>
             /\ {events'[k][1] : k \in 1 .. Len(events')} = SetBits(state_mask', 0)
             /\ \A k \in 1 .. Len(events') : events'[k][2]]_vars

\* C14 witness: an initialization that failed on a device that is not ready
\* has reset the session.
InitResetsWitness ==
    /\ result = <<-ENODEV>>
    /\ state_mask = 0
    /\ axis_x = Neutral
    /\ axis_y = Neutral
    /\ ~enabled
    /\ ~callback

\* C15: a column layout is accepted iff buttonColumnOffset >= 4 and
\* buttonColumnOffset + buttonCount <= 32: a total of 32 columns is accepted
\* and 33 rejected, and in an accepted layout every column the scan sets or
\* the emitter visits is below 32.
LayoutValidity ==
    (result # <<>>) =>
        /\ result[1] <=> /\ cfg.button_column_offset >= 4
                         /\ cfg.button_column_offset + cfg.button_count <= 32
        /\ (cfg.button_column_offset >= 4
               /\ cfg.button_column_offset + cfg.button_count = 32) => result[1]
        /\ (cfg.button_column_offset + cfg.button_count = 33) => ~result[1]
        /\ result[1] =>
               \A col \in {JOY_COL_UP, JOY_COL_DOWN, JOY_COL_LEFT, JOY_COL_RIGHT}
                           \cup {cfg.button_column_offset + i :
                                     i \in 0 .. (cfg.button_count - 1)}
                           \cup 0 .. (cfg.button_column_offset + cfg.button_count - 1) :
                   col < 32

\* C15 witness: a layout with buttons and 32 columns in total is accepted.
LayoutValidityWitness ==
    /\ result = <<TRUE>>
    /\ cfg.button_count > 0
    /\ cfg.button_column_offset + cfg.button_count = 32

\* C16: once the axis samples and the pin values are held constant, only the
\* first two cycles may emit events: from the third cycle on a cycle emits
\* no event and leaves the stored mask unchanged.
AntiChatterStabilization ==
    [][(ScanStep /\ hold # <<>> /\ hold_n >= 2) =>
          /\ events' = <<>>
          /\ state_mask' = state_mask]_vars

\* C17: in every reachable state the stored mask does not have both UP and
\* DOWN set, nor both LEFT and RIGHT, and has no bit set outside columns
\* 0..3 and buttonColumnOffset .. buttonColumnOffset + buttonCount - 1.
DirectionExclusivity ==
    /\ ~(TestBit(state_mask, JOY_COL_UP) /\ TestBit(state_mask, JOY_COL_DOWN))
    /\ ~(TestBit(state_mask, JOY_COL_LEFT) /\ TestBit(state_mask, JOY_COL_RIGHT))
    /\ SetBits(state_mask, 0) \subseteq
           (0 .. 3) \cup (cfg.button_column_offset ..
                              (cfg.button_column_offset + cfg.button_count - 1))

\* C17 witness: a stored mask with UP, RIGHT and the last button set.
DirectionExclusivityWitness ==
    /\ cfg.button_count = 2
    /\ SetBits(state_mask, 0)
           = {JOY_COL_UP, JOY_COL_RIGHT, cfg.button_column_offset + 1}

\* C18: with the sink registered before the first cycle and never changed,
\* after every cycle, successful or failed, the columns whose latest
\* delivered event was a press are exactly the set bits of the stored mask,
\* and no event repeats the value the sink already holds for its column.
SinkViewConsistency ==
    [][ScanStep =>
          /\ sink_view' = state_mask'
          /\ \A k \in 1 .. Len(events') :
                 events'[k][2] # TestBit(sink_view, events'[k][1])]_vars

\* C18 witness: a failed cycle after which the sink still holds a direction
\* and a button as pressed, as the stored mask does.
SinkViewConsistencyWitness ==
    /\ ScanReturned
    /\ scan_ret < 0
    /\ callback
    /\ sink_view = state_mask
    /\ TestBit(sink_view, JOY_COL_LEFT)
    /\ TestBit(sink_view, cfg.button_column_offset)

\* C19: for center, deadzone and hysteresis over the uint16_t range,
\* hysteresis >= deadzone included, the four thresholds are the exact signed
\* values center -/+ (deadzone +/- hysteresis), all within int32_t, with
\* lowOn <= lowOff and highOff <= highOn; a sample that triggers a direction
\* from Neutral holds that direction in the next call.
ThresholdArithmetic ==
    /\ (Len(result) = 4) =>
           /\ result[1] = cfg.center - cfg.deadzone - cfg.hysteresis
           /\ result[2] = cfg.center - cfg.deadzone + cfg.hysteresis
           /\ result[3] = cfg.center + cfg.deadzone + cfg.hysteresis
           /\ result[4] = cfg.center + cfg.deadzone - cfg.hysteresis
           /\ \A i \in 1 .. 4 :
                  result[i] >= 0 - INT32_MAX - 1 /\ result[i] <= INT32_MAX
           /\ result[1] <= result[2]
           /\ result[4] <= result[3]
    /\ (Len(result) = 2 /\ result[1] # Neutral) => result[2] = result[1]

\* C19 witness: the thresholds of the largest hysteresis with no deadzone
\* around center 0, the off-thresholds crossed over.
ThresholdArithmeticWitness ==
    /\ cfg.center = 0
    /\ cfg.deadzone = 0
    /\ cfg.hysteresis = U16_MAX
    /\ result = <<0 - U16_MAX, U16_MAX, U16_MAX, 0 - U16_MAX>>

====
